---- MODULE Spec2Model ----
(***************************************************************************)
(* Matchmaking queue, game-session completion, ELO rating and leaderboard  *)
(* maintenance of the sliding-puzzle server.                               *)
(*                                                                         *)
(* The server is a single Node.js process in front of a MySQL pool.  A     *)
(* handler runs without interruption between two awaits; every statement   *)
(* sent to the pool is executed on its own (autocommit, no transaction is  *)
(* opened around a handler).  One action of this module is therefore one   *)
(* database statement together with the JavaScript that runs when the      *)
(* statement's promise resolves, up to the next await.  The first action   *)
(* of a handler is the JavaScript that runs before its first await.        *)
(***************************************************************************)
EXTENDS Integers, Sequences, FiniteSets, TLC

(***************************************************************************)
(* Bounds of the model                                                     *)
(***************************************************************************)
MaxJoins == 3
MaxInFlight == 2
MaxSessions == 1
MaxCalls == 2
MaxEloCalls == 2
MaxLbCalls == 3
MaxMoves == 2
MaxApplies == 3

Users == {1, 2, 3}
NoUser == 0
JoinModes == {"speed", "multiplayer"}
JoinRequests == { <<"speed", 3>>, <<"speed", 4>>, <<"multiplayer", 4>> }
QueueKeys == {"speed", "fewest_moves", "multiplayer"}

(***************************************************************************)
(* Program constants                                                       *)
(***************************************************************************)
DefaultElo == 1000
MinElo == 800
MaxElo == 3000
KFactor == 32
MatchEloRange == 200

VARIABLES
    user_stats,        \* table user_stats: user_id -> row
    users,             \* table users: user_id -> [level, experience_points]
    game_sessions,     \* table game_sessions: sequence, session_id = index
    leaderboards,      \* table leaderboards: sequence, leaderboard_id = index
    game_moves,        \* table game_moves: sequence, move_id = index
    matchmakingQueue,  \* object matchmakingQueue: key -> array reference, 0 = undefined
    arrays,            \* the array objects matchmakingQueue and the handlers refer to
    activeGames,       \* Map activeGames: sessionId -> game
    joins,             \* join_matchmaking handlers between their awaits
    joinCount,         \* history: join_matchmaking events received since Init
    completes,         \* POST /api/games/:sessionId/complete handlers
    eloCalls,          \* runs of sp_update_elo between their statements
    lbCalls,           \* calls of db.updateLeaderboardEntry between their awaits
    callCount,         \* history: complete requests and leaderboard calls started
    tally,             \* history: sessionId -> responses sent and writes made for it
    waiting,           \* history: entries told matchmaking_joined and still waiting
    handed,            \* history: sessionId -> joinedAt of the entry it was created from
    opponent_disconnected, \* history: sessionId -> userId -> opponent_disconnected events sent
    puzzle,            \* generateSolvablePuzzle and the play after it: locals and position
    limiter,           \* createRateLimiter: its arguments maxRequests and windowMs
    requests,          \* Map requests of the limiter: identifier -> [count, resetTime]
    now,               \* Date.now() as the limiter reads it
    served,            \* history: identifier -> the answers given, with their times
    clock              \* Date.now(), advanced at every enqueue

vars == <<user_stats, users, game_sessions, leaderboards, game_moves,
          matchmakingQueue,
          arrays, activeGames, joins, joinCount, completes, eloCalls, lbCalls,
          callCount,
          tally, waiting, handed, opponent_disconnected, clock,
          puzzle, limiter, requests, now, served>>

dbVars == <<user_stats, users, game_sessions, leaderboards, game_moves>>
restVars == <<completes, eloCalls, lbCalls, callCount, tally>>
mmVars == <<matchmakingQueue, arrays, activeGames, joins, joinCount, waiting,
            handed, opponent_disconnected, clock>>
puzzleVars == <<puzzle>>
limiterVars == <<limiter, requests, now, served>>

(***************************************************************************)
(* Arithmetic of sp_update_elo                                             *)
(***************************************************************************)
Abs(x) == IF x < 0 THEN -x ELSE x

Max2(a, b) == IF a > b THEN a ELSE b

Min2(a, b) == IF a < b THEN a ELSE b

\* Fixed point with eight decimals; products are taken on four-digit halves
\* so that no intermediate value leaves 32 bits.
FixOne == 100000000
FixHalf == 10000

MulFix(a, b) ==
    LET ah == a \div FixHalf
        al == a % FixHalf
        bh == b \div FixHalf
        bl == b % FixHalf
    IN  ah * bh + ((ah * bl + al * bh) \div FixHalf) + ((al * bl) \div FixOne)

\* 10^(-(2^k)/400) for k = 0..11, eight decimals
Pow10Table ==
    << 99426007, 98855309, 97723722, 95499259, 91201084, 83176377,
       69183097, 47863009, 22908677, 5248075, 275423, 759 >>

RECURSIVE Pow10NegAcc(_, _, _)
Pow10NegAcc(d, k, acc) ==
    IF d = 0 THEN acc
    ELSE Pow10NegAcc(d \div 2, k + 1,
                     IF d % 2 = 1 THEN MulFix(acc, Pow10Table[k]) ELSE acc)

\* POW(10, -d / 400.0) for d >= 0
Pow10Neg(d) == Pow10NegAcc(d, 1, FixOne)

RECURSIVE DivDigits(_, _, _, _)
DivDigits(r, den, acc, n) ==
    IF n = 0 THEN (IF 2 * r >= den THEN acc + 1 ELSE acc)
    ELSE DivDigits((r * 10) % den, den, acc * 10 + ((r * 10) \div den), n - 1)

\* num / den (num <= den) stored into a DECIMAL(5,4): ten-thousandths, half up
Decimal54(num, den) == DivDigits(num % den, den, num \div den, 4)

\* expected = 1 / (1 + POW(10, (other - own) / 400.0)), as DECIMAL(5,4)
Expected(own, other) ==
    LET q == Pow10Neg(Abs(other - own))
    IN  IF other >= own THEN Decimal54(q, FixOne + q)
        ELSE Decimal54(FixOne, FixOne + q)

\* ROUND(x / 10000) of MySQL: half away from zero
RoundTenThousandths(n) ==
    IF n >= 0 THEN (n + 5000) \div 10000 ELSE -((5000 - n) \div 10000)

\* the actual score without its draw branch
ActualDrawAsLoss(self, opp, winner) == IF winner = self THEN 10000 ELSE 0

\* actual score in ten-thousandths: 1.0, 0.0, or 0.5 for a draw
Actual(self, opp, winner) ==
    IF winner = self THEN 10000
    ELSE IF winner = opp THEN 0
    ELSE 5000

\* elo_change = ROUND(k_factor * (actual - expected))
EloChange(actual, expected) == RoundTenThousandths(KFactor * (actual - expected))

\* the clamp without its GREATEST
ClampEloNoFloor(r) == Min2(MaxElo, r)

\* GREATEST(800, LEAST(3000, elo_rating + elo_change))
ClampElo(r) == Max2(MinElo, Min2(MaxElo, r))

(***************************************************************************)
(* Rows                                                                    *)
(***************************************************************************)
\* a row of user_stats at its column defaults; win_rate and average_moves
\* are DECIMAL(n,2) columns, held in hundredths
NewStats(elo) ==
    [ total_games |-> 0, total_wins |-> 0, total_losses |-> 0, win_rate |-> 0,
      average_completion_time |-> 0, best_completion_time |-> 0,
      average_moves |-> 0, best_move_count |-> 0,
      elo_rating |-> elo,
      current_win_streak |-> 0, current_loss_streak |-> 0, best_win_streak |-> 0,
      speed_mode_wins |-> 0, fewest_moves_wins |-> 0, multiplayer_wins |-> 0,
      practice_games |-> 0,
      games_3x3 |-> 0, games_4x4 |-> 0, games_6x6 |-> 0, games_8x8 |-> 0,
      games_10x10 |-> 0 ]

NewUser == [ level |-> 1, experience_points |-> 0 ]

\* INSERT INTO game_sessions (player1_id, player2_id, board_size, game_mode, ...)
NewSession(p1, p2, boardSize, mode) ==
    [ player1_id |-> p1, player2_id |-> p2, winner_id |-> NoUser,
      board_size |-> boardSize, game_mode |-> mode, status |-> "in_progress",
      completion_time |-> 0, move_count |-> 0,
      perfect_game |-> FALSE, speed_bonus |-> FALSE, completed_at |-> FALSE ]

NoSession == NewSession(NoUser, NoUser, 0, "")

NoTally == [ ok |-> 0, conflict |-> 0, error |-> 0, stats |-> 0, elo |-> 0, lb |-> 0 ]

NoEntry == [ userId |-> NoUser, boardSize |-> 0, elo |-> 0, joinedAt |-> 0 ]

(***************************************************************************)
(* Array helpers of the socket handlers                                    *)
(***************************************************************************)
MinOf(S) == CHOOSE i \in S : \A j \in S : i <= j

\* player.boardSize === boardSize && Math.abs(player.elo - userElo) <= 200
CompatibleNarrow(player, boardSize, userElo) ==
    /\ player.boardSize = boardSize
    /\ Abs(player.elo - userElo) < MatchEloRange

Compatible(player, boardSize, userElo) ==
    /\ player.boardSize = boardSize
    /\ Abs(player.elo - userElo) <= MatchEloRange

\* queue.findIndex(compatible), 0 for the -1 of JavaScript
FindOpponent(queue, boardSize, userElo) ==
    LET S == { i \in 1..Len(queue) : Compatible(queue[i], boardSize, userElo) }
    IN  IF S = {} THEN 0 ELSE MinOf(S)

\* queue.findIndex((p) => p.userId === socket.userId)
FindUser(queue, u) ==
    LET S == { i \in 1..Len(queue) : queue[i].userId = u }
    IN  IF S = {} THEN 0 ELSE MinOf(S)

\* a splice that removes nothing
SpliceKeep(queue, i) == queue

\* queue.splice(i, 1)
Splice(queue, i) ==
    [ j \in 1..(Len(queue) - 1) |-> IF j < i THEN queue[j] ELSE queue[j + 1] ]

ParticipantsHost(g) == {g.player1}

Participants(g) == {g.player1, g.player2}

\* socket.to(`game_${sessionId}`): the players whose sockets joined the room
\* of game g, the sender left out
RoomExcept(g, sender) == {g.player1, g.player2} \ {sender}

\* array objects still referred to by matchmakingQueue or by a running handler
Reachable(mq, js) ==
    { mq[k] : k \in QueueKeys } \cup { j.queue : j \in js }

\* the heap without its garbage
Collect(heap, mq, js) ==
    [ r \in (DOMAIN heap) \cap Reachable(mq, js) |-> heap[r] ]

\* the reference of a new array object
FreshRef == MinOf((1..(MaxInFlight + 3)) \ DOMAIN arrays)

\* the entry w is in the array that matchmakingQueue holds for its mode
Queued(w, mq, heap) ==
    /\ mq[w.mode] # 0
    /\ \E i \in 1..Len(heap[mq[w.mode]]) : heap[mq[w.mode]][i].joinedAt = w.joinedAt

\* history: the entries still waiting after user u withdrew, from one mode or
\* (disconnect) from all: what the handler left in a queue array stays; an
\* entry no queue array of matchmakingQueue holds goes with its user
StillWaiting(u, modes, mq, heapAfter) ==
    { w \in waiting :
        IF Queued(w, matchmakingQueue, arrays)
        THEN Queued(w, mq, heapAfter)
        ELSE ~(w.userId = u /\ w.mode \in modes) }

\* no puzzle is being generated or played
NoPuzzle == [ pc |-> "idle", size |-> 0, board |-> << >>, emptyIndex |-> 0, i |-> 0,
              attempts |-> 0 ]

\* the server state with no puzzle and no rate limiter in it
NoUtilities ==
    /\ puzzle = NoPuzzle
    /\ limiter = [ maxRequests |-> 0, windowMs |-> 0 ]
    /\ requests = << >>
    /\ now = 0
    /\ served = << >>

(***************************************************************************)
(* Initial states                                                          *)
(***************************************************************************)
InitWith(ratings) ==
    /\ user_stats = [u \in Users |-> NewStats(ratings[u])]
    /\ users = [u \in Users |-> NewUser]
    /\ game_sessions = << >>
    /\ leaderboards = << >>
    /\ game_moves = << >>
    /\ matchmakingQueue = [k \in QueueKeys |->
            IF k = "speed" THEN 1 ELSE IF k = "fewest_moves" THEN 2 ELSE 0]
    /\ arrays = << << >>, << >> >>
    /\ activeGames = << >>
    /\ joins = {}
    /\ joinCount = 0
    /\ completes = {}
    /\ eloCalls = {}
    /\ lbCalls = {}
    /\ callCount = 0
    /\ tally = << >>
    /\ waiting = {}
    /\ handed = << >>
    /\ opponent_disconnected = << >>
    /\ clock = 0
    /\ NoUtilities

\* every account starts at the column default
Init == InitWith([u \in Users |-> DefaultElo])

(***************************************************************************)
(* socket.on("join_matchmaking")                                           *)
(***************************************************************************)
\* const queue = matchmakingQueue[mode] || [];  then await db.getUserStats
JoinBegin(u, mode, boardSize) ==
    /\ joinCount < MaxJoins
    /\ Cardinality(joins) < MaxInFlight
    /\ LET fresh == matchmakingQueue[mode] = 0
           ref == IF fresh THEN FreshRef ELSE matchmakingQueue[mode]
       IN  /\ arrays' = IF fresh THEN (ref :> << >>) @@ arrays ELSE arrays
           /\ joins' = joins \cup
                  { [ id |-> joinCount + 1, userId |-> u, mode |-> mode,
                      boardSize |-> boardSize, queue |-> ref, pc |-> "stats",
                      userElo |-> 0, opponent |-> NoEntry ] }
    /\ joinCount' = joinCount + 1
    /\ UNCHANGED <<puzzleVars, limiterVars, dbVars, matchmakingQueue, activeGames, restVars,
                   waiting, handed, opponent_disconnected, clock>>

\* getUserStats resolves; findIndex, then splice and createGameSession, or push
JoinResume(j) ==
    /\ j \in joins
    /\ j.pc = "stats"
    /\ LET queue == arrays[j.queue]
           userElo == user_stats[j.userId].elo_rating
           opponentIndex == FindOpponent(queue, j.boardSize, userElo)
       IN  IF opponentIndex # 0
           THEN LET opponent == queue[opponentIndex]
                IN  /\ arrays' = [arrays EXCEPT ![j.queue] = Splice(queue, opponentIndex)]
                    /\ joins' = (joins \ {j}) \cup
                          { [j EXCEPT !.pc = "create", !.userElo = userElo,
                                      !.opponent = opponent] }
                    /\ waiting' = { e \in waiting : e.joinedAt # opponent.joinedAt }
                    /\ UNCHANGED <<matchmakingQueue, clock>>
           ELSE LET entry == [ userId |-> j.userId, boardSize |-> j.boardSize,
                               elo |-> userElo, joinedAt |-> clock + 1 ]
                    pushed == Append(queue, entry)
                    mq == [matchmakingQueue EXCEPT ![j.mode] = j.queue]
                IN  /\ matchmakingQueue' = mq
                    /\ joins' = joins \ {j}
                    /\ arrays' = Collect([arrays EXCEPT ![j.queue] = pushed], mq, joins')
                    /\ clock' = clock + 1
                    /\ waiting' = waiting \cup
                          { [ userId |-> j.userId, mode |-> j.mode,
                              boardSize |-> j.boardSize, elo |-> userElo,
                              joinedAt |-> clock + 1, position |-> Len(pushed) ] }
    /\ UNCHANGED <<puzzleVars, limiterVars, dbVars, activeGames, joinCount, restVars, handed,
                   opponent_disconnected>>

\* createGameSession resolves; activeGames.set and match_found
JoinCreated(j) ==
    /\ j \in joins
    /\ j.pc = "create"
    /\ LET sessionId == Len(game_sessions) + 1
       IN  /\ game_sessions' = Append(game_sessions,
                  NewSession(j.userId, j.opponent.userId, j.boardSize, j.mode))
           /\ activeGames' = (sessionId :>
                  [ player1 |-> j.userId, player2 |-> j.opponent.userId,
                    boardSize |-> j.boardSize, mode |-> j.mode ]) @@ activeGames
           /\ handed' = (sessionId :> j.opponent.joinedAt) @@ handed
           /\ opponent_disconnected' =
                  (sessionId :> [ v \in Users |-> 0 ]) @@ opponent_disconnected
           /\ tally' = Append(tally, NoTally)
    /\ joins' = joins \ {j}
    /\ arrays' = Collect(arrays, matchmakingQueue, joins')
    /\ UNCHANGED <<puzzleVars, limiterVars, game_moves, user_stats, users, leaderboards, matchmakingQueue, joinCount,
                   completes, eloCalls, lbCalls, callCount, waiting,
                   clock>>

(***************************************************************************)
(* socket.on("leave_matchmaking")                                          *)
(***************************************************************************)
Leave(u, mode) ==
    /\ LET ref == matchmakingQueue[mode]
           index == IF ref = 0 THEN 0 ELSE FindUser(arrays[ref], u)
       IN  arrays' = IF index # 0
                     THEN [arrays EXCEPT ![ref] = Splice(arrays[ref], index)]
                     ELSE arrays
    /\ waiting' = StillWaiting(u, {mode}, matchmakingQueue, arrays')
    /\ UNCHANGED <<puzzleVars, limiterVars, dbVars, matchmakingQueue, activeGames, joins, joinCount,
                   restVars, handed, opponent_disconnected, clock>>

(***************************************************************************)
(* socket.on("game_completed")                                             *)
(***************************************************************************)
GameCompleted(sessionId) ==
    /\ activeGames' = [ s \in (DOMAIN activeGames) \ {sessionId} |-> activeGames[s] ]
    /\ UNCHANGED <<puzzleVars, limiterVars, dbVars, matchmakingQueue, arrays, joins, joinCount, restVars,
                   waiting, handed, opponent_disconnected, clock>>

(***************************************************************************)
(* socket.on("disconnect")                                                 *)
(***************************************************************************)
Disconnect(u) ==
    /\ arrays' = [ r \in DOMAIN arrays |->
          IF /\ \E k \in QueueKeys : matchmakingQueue[k] = r
             /\ FindUser(arrays[r], u) # 0
          THEN Splice(arrays[r], FindUser(arrays[r], u))
          ELSE arrays[r] ]
    /\ activeGames' = [ s \in { t \in DOMAIN activeGames :
                                   u \notin Participants(activeGames[t]) } |->
                        activeGames[s] ]
    /\ opponent_disconnected' =
          [ s \in DOMAIN opponent_disconnected |->
              IF s \in DOMAIN activeGames /\ u \in Participants(activeGames[s])
              THEN [ v \in Users |->
                       opponent_disconnected[s][v]
                       + (IF v \in RoomExcept(activeGames[s], u) THEN 1 ELSE 0) ]
              ELSE opponent_disconnected[s] ]
    /\ waiting' = StillWaiting(u, QueueKeys, matchmakingQueue, arrays')
    /\ UNCHANGED <<puzzleVars, limiterVars, dbVars, matchmakingQueue, joins, joinCount, restVars,
                   handed, clock>>

(***************************************************************************)
(* Stored procedures and db helpers                                        *)
(***************************************************************************)
\* ROUND(n / d) for n >= 0, d > 0
RoundDiv(n, d) == (2 * n + d) \div (2 * d)

UpdateUserStatsRated(row, isWin, completionTime, moveCount, boardSize, gameMode) ==
    [row EXCEPT !.total_games = @ + 1,
                !.elo_rating = @ + (IF isWin THEN KFactor ELSE 0)]

\* sp_update_user_stats.  MySQL evaluates the assignments of one UPDATE from
\* left to right, and a column named on a right-hand side has the value the
\* assignments before it gave it.
UpdateUserStats(row, isWin, completionTime, moveCount, boardSize, gameMode) ==
    LET w == IF isWin THEN 1 ELSE 0
        total_games == row.total_games + 1
        total_wins == row.total_wins + w
        total_losses == row.total_losses + (1 - w)
        win_rate == RoundDiv((total_wins + w) * 10000, total_games + 1)
        average_completion_time ==
            RoundDiv(row.average_completion_time * total_games + completionTime,
                     total_games + 1)
        best_completion_time ==
            IF /\ completionTime > 0
               /\ (row.best_completion_time = 0
                   \/ completionTime < row.best_completion_time)
            THEN completionTime ELSE row.best_completion_time
        average_moves ==
            RoundDiv(row.average_moves * total_games + moveCount * 100,
                     total_games + 1)
        best_move_count ==
            IF row.best_move_count = 0 \/ moveCount < row.best_move_count
            THEN moveCount ELSE row.best_move_count
        current_win_streak == IF isWin THEN row.current_win_streak + 1 ELSE 0
        current_loss_streak == IF isWin THEN 0 ELSE row.current_loss_streak + 1
        best_win_streak ==
            Max2(row.best_win_streak,
                 IF isWin THEN current_win_streak + 1 ELSE current_win_streak)
    IN  [ total_games |-> total_games, total_wins |-> total_wins,
          total_losses |-> total_losses, win_rate |-> win_rate,
          average_completion_time |-> average_completion_time,
          best_completion_time |-> best_completion_time,
          average_moves |-> average_moves, best_move_count |-> best_move_count,
          elo_rating |-> row.elo_rating,
          current_win_streak |-> current_win_streak,
          current_loss_streak |-> current_loss_streak,
          best_win_streak |-> best_win_streak,
          speed_mode_wins |->
              row.speed_mode_wins + (IF gameMode = "speed" THEN w ELSE 0),
          fewest_moves_wins |->
              row.fewest_moves_wins + (IF gameMode = "fewest_moves" THEN w ELSE 0),
          multiplayer_wins |->
              row.multiplayer_wins + (IF gameMode = "multiplayer" THEN w ELSE 0),
          practice_games |->
              row.practice_games + (IF gameMode = "practice" THEN 1 ELSE 0),
          games_3x3 |-> row.games_3x3 + (IF boardSize = 3 THEN 1 ELSE 0),
          games_4x4 |-> row.games_4x4 + (IF boardSize = 4 THEN 1 ELSE 0),
          games_6x6 |-> row.games_6x6 + (IF boardSize = 6 THEN 1 ELSE 0),
          games_8x8 |-> row.games_8x8 + (IF boardSize = 8 THEN 1 ELSE 0),
          games_10x10 |-> row.games_10x10 + (IF boardSize = 10 THEN 1 ELSE 0) ]

\* a call of db.updateUserStatsAfterGame on its own
StatsApply(u, isWin, completionTime, moveCount, boardSize, gameMode) ==
    /\ user_stats[u].total_games < MaxApplies
    /\ user_stats' = [user_stats EXCEPT ![u] =
          UpdateUserStats(@, isWin, completionTime, moveCount, boardSize, gameMode)]
    /\ UNCHANGED <<puzzleVars, limiterVars, game_moves, users, game_sessions, leaderboards, mmVars, restVars>>

\* sp_update_elo: the two elo_change values from the ratings it selected
EloChange1(e) ==
    EloChange(Actual(e.player1_id, e.player2_id, e.winner_id),
              Expected(e.player1_elo, e.player2_elo))

EloChange2(e) ==
    EloChange(IF e.winner_id = e.player1_id THEN 0
              ELSE IF e.winner_id = e.player2_id THEN 10000
              ELSE 5000,
              Expected(e.player2_elo, e.player1_elo))

RECURSIVE LevelUp(_, _)
\* while (remainingXP >= newLevel * 100) { remainingXP -= newLevel * 100; newLevel++ }
LevelUp(newLevel, remainingXP) ==
    IF remainingXP >= newLevel * 100
    THEN LevelUp(newLevel + 1, remainingXP - newLevel * 100)
    ELSE [ level |-> newLevel, experience_points |-> remainingXP ]

\* db.addExperience
AddExperience(user, xp) == LevelUp(user.level, user.experience_points + xp)

\* xpGained of the complete handler
XpGained(isWin, perfectGame, speedBonus) ==
    50 + (IF isWin THEN 25 ELSE 0) + (IF perfectGame THEN 50 ELSE 0)
       + (IF speedBonus THEN 30 ELSE 0)

\* db.updateGameSession(sessionId, { status: "completed", ... })
UpdateGameSessionReopen(row, c) ==
    [row EXCEPT !.status = IF @ = "completed" THEN "in_progress" ELSE "completed",
                !.winner_id = c.winnerId,
                !.completion_time = c.completionTime, !.move_count = c.moveCount,
                !.perfect_game = c.perfectGame, !.speed_bonus = c.speedBonus,
                !.completed_at = TRUE]

UpdateGameSession(row, c) ==
    [row EXCEPT !.status = "completed", !.winner_id = c.winnerId,
                !.completion_time = c.completionTime, !.move_count = c.moveCount,
                !.perfect_game = c.perfectGame, !.speed_bonus = c.speedBonus,
                !.completed_at = TRUE]

(***************************************************************************)
(* Leaderboard categories                                                  *)
(***************************************************************************)
Categories ==
    {"speed_3x3", "speed_4x4", "speed_overall", "moves_4x4", "wins_overall"}

\* category.includes("speed")
IncludesSpeed(category) == category \in {"speed_3x3", "speed_4x4", "speed_overall"}

\* category.includes("moves")
IncludesMoves(category) == category \in {"moves_4x4"}

\* `speed_${session.board_size}x${session.board_size}`
SpeedCategory(boardSize) ==
    IF boardSize = 3 THEN "speed_3x3" ELSE "speed_4x4"

\* orderBy of recalculateLeaderboardRanks
Ascending(category) == IncludesSpeed(category) \/ IncludesMoves(category)

\* shouldUpdate of updateLeaderboardEntry: both arms compare with <
ShouldUpdate(category, score, existingScore) ==
    IF IncludesSpeed(category) THEN score < existingScore
    ELSE score < existingScore

\* the rows of one (category, season)
Partition(rows, category, season) ==
    { i \in 1..Len(rows) : rows[i].category = category /\ rows[i].season = season }

\* the row of (user_id, category, season), 0 if there is none
FindEntry(rows, userId, category, season) ==
    LET S == { i \in Partition(rows, category, season) : rows[i].user_id = userId }
    IN  IF S = {} THEN 0 ELSE MinOf(S)

\* the numberings UPDATE ... SET rank_position = (@rank := @rank + 1)
\* ORDER BY score can produce: rows of equal score come in any order
Rankings(rows, category, season) ==
    LET P == Partition(rows, category, season)
    IN  { r \in [P -> 1..Cardinality(P)] :
            /\ \A a \in P, b \in P : a # b => r[a] # r[b]
            /\ \A a \in P, b \in P :
                   (IF Ascending(category) THEN rows[a].score < rows[b].score
                    ELSE rows[a].score > rows[b].score) => r[a] < r[b] }

(***************************************************************************)
(* POST /api/games/create                                                  *)
(***************************************************************************)
ValidSizes == {3, 4, 6, 8, 10}

CreateGame(u, boardSize, gameMode, opponentId) ==
    /\ Len(game_sessions) < MaxSessions
    /\ boardSize \in ValidSizes
    /\ game_sessions' = Append(game_sessions,
                               NewSession(u, opponentId, boardSize, gameMode))
    /\ tally' = Append(tally, NoTally)
    /\ UNCHANGED <<puzzleVars, limiterVars, game_moves, user_stats, users, leaderboards, mmVars, completes, eloCalls,
                   lbCalls, callCount>>

(***************************************************************************)
(* db.recordMove, called by POST /api/games/:sessionId/moves and by         *)
(* socket.on("game_move")                                                  *)
(***************************************************************************)
\* INSERT INTO game_moves (session_id, user_id, move_number, ...): the
\* foreign key on session_id refuses a session that does not exist
RecordMove(sessionId, userId, moveNumber) ==
    /\ Len(game_moves) < MaxMoves
    /\ game_moves' =
          IF sessionId \in 1..Len(game_sessions)
          THEN Append(game_moves, [ session_id |-> sessionId, user_id |-> userId,
                                    move_number |-> moveNumber ])
          ELSE game_moves
    /\ UNCHANGED <<puzzleVars, limiterVars, user_stats, users, game_sessions, leaderboards, mmVars,
                   restVars>>

(***************************************************************************)
(* db.updateLeaderboardEntry                                               *)
(***************************************************************************)
NewLbCall(id, parent, sessionId, userId, category, score, eloRating, season) ==
    [ id |-> id, parent |-> parent, sessionId |-> sessionId, userId |-> userId,
      category |-> category, score |-> score, eloRating |-> eloRating,
      season |-> season, pc |-> "select" ]

\* the call returns or throws into the complete handler that made it, which
\* answers 200 or (catch) 500
LbReturn(l, threw) ==
    /\ lbCalls' = lbCalls \ {l}
    /\ completes' = { c \in completes : c.id # l.parent }
    /\ tally' = IF l.parent = 0 THEN tally
                ELSE [tally EXCEPT ![l.sessionId] =
                        IF threw THEN [@ EXCEPT !.error = @ + 1]
                        ELSE [@ EXCEPT !.ok = @ + 1]]

\* SELECT * FROM leaderboards WHERE user_id, category, season
LbSelect(l) ==
    /\ l \in lbCalls
    /\ l.pc = "select"
    /\ LET e == FindEntry(leaderboards, l.userId, l.category, l.season)
       IN  IF e = 0
           THEN /\ lbCalls' = (lbCalls \ {l}) \cup {[l EXCEPT !.pc = "insert"]}
           ELSE IF ShouldUpdate(l.category, l.score, leaderboards[e].score)
           THEN /\ lbCalls' = (lbCalls \ {l}) \cup {[l EXCEPT !.pc = "update"]}
           ELSE /\ lbCalls' = (lbCalls \ {l}) \cup {[l EXCEPT !.pc = "recalc"]}
    /\ UNCHANGED <<puzzleVars, limiterVars, dbVars, mmVars, completes, eloCalls, callCount, tally>>

\* UPDATE leaderboards SET score = ?, elo_rating = ? WHERE user_id, category, season
LbUpdate(l) ==
    /\ l \in lbCalls
    /\ l.pc = "update"
    /\ leaderboards' = [ i \in 1..Len(leaderboards) |->
          IF i = FindEntry(leaderboards, l.userId, l.category, l.season)
          THEN [leaderboards[i] EXCEPT !.score = l.score, !.elo_rating = l.eloRating]
          ELSE leaderboards[i] ]
    /\ lbCalls' = (lbCalls \ {l}) \cup {[l EXCEPT !.pc = "recalc"]}
    /\ UNCHANGED <<puzzleVars, limiterVars, game_moves, user_stats, users, game_sessions, mmVars, completes, eloCalls,
                   callCount, tally>>

\* INSERT INTO leaderboards (..., rank_position) VALUES (..., 0); the unique
\* key (user_id, category, season) refuses a second row
LbInsert(l) ==
    /\ l \in lbCalls
    /\ l.pc = "insert"
    /\ IF FindEntry(leaderboards, l.userId, l.category, l.season) = 0
       THEN /\ leaderboards' = Append(leaderboards,
                  [ user_id |-> l.userId, category |-> l.category,
                    season |-> l.season, score |-> l.score,
                    elo_rating |-> l.eloRating, rank_position |-> 0 ])
            /\ lbCalls' = (lbCalls \ {l}) \cup {[l EXCEPT !.pc = "recalc"]}
            /\ UNCHANGED <<completes, tally>>
       ELSE /\ LbReturn(l, TRUE)
            /\ UNCHANGED leaderboards
    /\ UNCHANGED <<puzzleVars, limiterVars, game_moves, user_stats, users, game_sessions, mmVars, eloCalls, callCount>>

\* recalculateLeaderboardRanks, the statement text executed: one sweep
LbRecalc(l) ==
    /\ l \in lbCalls
    /\ l.pc = "recalc"
    /\ \E r \in Rankings(leaderboards, l.category, l.season) :
          leaderboards' = [ i \in 1..Len(leaderboards) |->
              IF i \in DOMAIN r
              THEN [leaderboards[i] EXCEPT !.rank_position = r[i]]
              ELSE leaderboards[i] ]
    /\ LbReturn(l, FALSE)
    /\ UNCHANGED <<puzzleVars, limiterVars, game_moves, user_stats, users, game_sessions, mmVars, eloCalls, callCount>>

\* recalculateLeaderboardRanks, the statement text refused: pool.execute
\* prepares its text as one statement, and the text holds two
\* (SET @rank = 0; UPDATE ...)
LbRecalcRefused(l) ==
    /\ l \in lbCalls
    /\ l.pc = "recalc"
    /\ LbReturn(l, TRUE)
    /\ UNCHANGED <<puzzleVars, limiterVars, dbVars, mmVars, eloCalls, callCount>>

\* a call of db.updateLeaderboardEntry on its own
LbBegin(u, category, score, eloRating, season) ==
    /\ callCount < MaxLbCalls
    /\ callCount' = callCount + 1
    /\ lbCalls' = lbCalls \cup
          { NewLbCall(callCount + 1, 0, 0, u, category, score, eloRating, season) }
    /\ UNCHANGED <<puzzleVars, limiterVars, dbVars, mmVars, completes, eloCalls, tally>>

(***************************************************************************)
(* db.calculateAndUpdateELO: CALL sp_update_elo                            *)
(***************************************************************************)
NewEloCall(id, parent, sessionId, player1Id, player2Id, winnerId) ==
    [ id |-> id, parent |-> parent, sessionId |-> sessionId,
      player1_id |-> player1Id, player2_id |-> player2Id, winner_id |-> winnerId,
      pc |-> "select1", player1_elo |-> 0, player2_elo |-> 0 ]

\* SELECT elo_rating INTO player1_elo
EloSelect1(e) ==
    /\ e \in eloCalls
    /\ e.pc = "select1"
    /\ eloCalls' = (eloCalls \ {e}) \cup
          {[e EXCEPT !.pc = "select2",
                     !.player1_elo = user_stats[e.player1_id].elo_rating]}
    /\ UNCHANGED <<puzzleVars, limiterVars, dbVars, mmVars, completes, lbCalls, callCount, tally>>

\* SELECT elo_rating INTO player2_elo
EloSelect2(e) ==
    /\ e \in eloCalls
    /\ e.pc = "select2"
    /\ eloCalls' = (eloCalls \ {e}) \cup
          {[e EXCEPT !.pc = "update1",
                     !.player2_elo = user_stats[e.player2_id].elo_rating]}
    /\ UNCHANGED <<puzzleVars, limiterVars, dbVars, mmVars, completes, lbCalls, callCount, tally>>

\* UPDATE user_stats SET elo_rating = ... WHERE user_id = p_player1_id
EloUpdate1(e) ==
    /\ e \in eloCalls
    /\ e.pc = "update1"
    /\ user_stats' = [user_stats EXCEPT ![e.player1_id].elo_rating =
          ClampElo(@ + EloChange1(e))]
    /\ eloCalls' = (eloCalls \ {e}) \cup {[e EXCEPT !.pc = "update2"]}
    /\ UNCHANGED <<puzzleVars, limiterVars, game_moves, users, game_sessions, leaderboards, mmVars, completes, lbCalls,
                   callCount, tally>>

\* UPDATE user_stats SET elo_rating = ... WHERE user_id = p_player2_id; the
\* procedure returns, and the complete handler that called it goes on
EloUpdate2(e) ==
    /\ e \in eloCalls
    /\ e.pc = "update2"
    /\ user_stats' = [user_stats EXCEPT ![e.player2_id].elo_rating =
          ClampElo(@ + EloChange2(e))]
    /\ eloCalls' = eloCalls \ {e}
    /\ completes' = { IF c.id = e.parent THEN [c EXCEPT !.pc = "xp"] ELSE c :
                         c \in completes }
    /\ tally' = IF e.parent = 0 THEN tally
                ELSE [tally EXCEPT ![e.sessionId].elo = @ + 1]
    /\ UNCHANGED <<puzzleVars, limiterVars, game_moves, users, game_sessions, leaderboards, mmVars, lbCalls, callCount>>

\* a call of db.calculateAndUpdateELO on its own
EloBegin(player1Id, player2Id, winnerId) ==
    /\ callCount < MaxEloCalls
    /\ callCount' = callCount + 1
    /\ eloCalls' = eloCalls \cup
          { NewEloCall(callCount + 1, 0, 0, player1Id, player2Id, winnerId) }
    /\ UNCHANGED <<puzzleVars, limiterVars, dbVars, mmVars, completes, lbCalls, tally>>

(***************************************************************************)
(* POST /api/games/:sessionId/complete                                     *)
(***************************************************************************)
CompleteBegin(u, sessionId, winnerId, completionTime, moveCount, perfectGame, speedBonus) ==
    /\ callCount < MaxCalls
    /\ callCount' = callCount + 1
    /\ completes' = completes \cup
          { [ id |-> callCount + 1, userId |-> u, sessionId |-> sessionId,
              winnerId |-> winnerId, completionTime |-> completionTime,
              moveCount |-> moveCount, perfectGame |-> perfectGame,
              speedBonus |-> speedBonus, pc |-> "get", session |-> NoSession ] }
    /\ UNCHANGED <<puzzleVars, limiterVars, dbVars, mmVars, eloCalls, lbCalls, tally>>

\* the handler of c moves on
Goto(c, pc) == completes' = (completes \ {c}) \cup {[c EXCEPT !.pc = pc]}

CompleteGetBlind(c) ==
    /\ c \in completes
    /\ c.pc = "get"
    /\ Goto(c, "xp")
    /\ UNCHANGED <<puzzleVars, limiterVars, dbVars, mmVars, eloCalls, lbCalls, callCount, tally>>

\* db.getGameSession resolves: 404, 400 "Game already completed", or go on
CompleteGet(c) ==
    /\ c \in completes
    /\ c.pc = "get"
    /\ IF c.sessionId \notin 1..Len(game_sessions)
       THEN /\ completes' = completes \ {c}
            /\ UNCHANGED tally
       ELSE IF game_sessions[c.sessionId].status = "completed"
       THEN /\ completes' = completes \ {c}
            /\ tally' = [tally EXCEPT ![c.sessionId].conflict = @ + 1]
       ELSE /\ completes' = (completes \ {c}) \cup
                  {[c EXCEPT !.pc = "update", !.session = game_sessions[c.sessionId]]}
            /\ UNCHANGED tally
    /\ UNCHANGED <<puzzleVars, limiterVars, dbVars, mmVars, eloCalls, lbCalls, callCount>>

\* db.updateGameSession
CompleteUpdate(c) ==
    /\ c \in completes
    /\ c.pc = "update"
    /\ game_sessions' = [game_sessions EXCEPT
          ![c.sessionId] = UpdateGameSession(@, c)]
    /\ Goto(c, "stats")
    /\ UNCHANGED <<puzzleVars, limiterVars, game_moves, user_stats, users, leaderboards, mmVars, eloCalls, lbCalls,
                   callCount, tally>>

\* db.updateUserStatsAfterGame for the caller; then, if (session.player2_id),
\* db.calculateAndUpdateELO
CompleteStats(c) ==
    /\ c \in completes
    /\ c.pc = "stats"
    /\ user_stats' = [user_stats EXCEPT ![c.userId] =
          UpdateUserStats(@, c.winnerId = c.userId, c.completionTime,
                          c.moveCount, c.session.board_size, c.session.game_mode)]
    /\ tally' = [tally EXCEPT ![c.sessionId].stats = @ + 1]
    /\ IF c.session.player2_id # NoUser
       THEN /\ Goto(c, "in_elo")
            /\ eloCalls' = eloCalls \cup
                  { NewEloCall(c.id, c.id, c.sessionId, c.session.player1_id,
                               c.session.player2_id, c.winnerId) }
       ELSE /\ Goto(c, "xp")
            /\ UNCHANGED eloCalls
    /\ UNCHANGED <<puzzleVars, limiterVars, game_moves, users, game_sessions, leaderboards, mmVars, lbCalls, callCount>>

\* db.addExperience, its transaction taken as one step; the achievement
\* tables are not part of this model; then
\* the leaderboard of speed mode, or the answer 200
CompleteXp(c) ==
    /\ c \in completes
    /\ c.pc = "xp"
    /\ users' = [users EXCEPT ![c.userId] =
          AddExperience(@, XpGained(c.winnerId = c.userId, c.perfectGame,
                                    c.speedBonus))]
    /\ IF c.session.game_mode = "speed"
       THEN /\ Goto(c, "leaderboard")
            /\ UNCHANGED tally
       ELSE /\ completes' = completes \ {c}
            /\ tally' = [tally EXCEPT ![c.sessionId].ok = @ + 1]
    /\ UNCHANGED <<puzzleVars, limiterVars, game_moves, user_stats, game_sessions, leaderboards, mmVars, eloCalls,
                   lbCalls, callCount>>

\* (await db.getUserStats(userId)).elo_rating, then db.updateLeaderboardEntry
CompleteLeaderboard(c) ==
    /\ c \in completes
    /\ c.pc = "leaderboard"
    /\ lbCalls' = lbCalls \cup
          { NewLbCall(c.id, c.id, c.sessionId, c.userId,
                      SpeedCategory(c.session.board_size), c.completionTime,
                      user_stats[c.userId].elo_rating, "all_time") }
    /\ tally' = [tally EXCEPT ![c.sessionId].lb = @ + 1]
    /\ Goto(c, "in_leaderboard")
    /\ UNCHANGED <<puzzleVars, limiterVars, dbVars, mmVars, eloCalls, callCount>>

(***************************************************************************)
(* Puzzle boards: generatePuzzle, moveTile, isSolved, isSolvable and       *)
(* generateSolvablePuzzle.  A board is the array as the code indexes it,   *)
(* a function on 0..length-1; generatePuzzle is taken one random move at   *)
(* a step.                                                                 *)
(***************************************************************************)
PuzzleSize == 2
maxAttempts == 100

\* the value moveTile returns for a move that is not valid
Null == << >>

Length(board) == Cardinality(DOMAIN board)

\* Array.from({ length: size * size }, (_, i) => i)
ArrayFrom(size) == [ i \in 0..(size * size - 1) |-> i ]

\* [board[a], board[b]] = [board[b], board[a]]
Swap(board, a, b) == [board EXCEPT ![a] = board[b], ![b] = board[a]]

\* board.indexOf(v)
indexOf(board, v) ==
    IF \E i \in DOMAIN board : board[i] = v
    THEN MinOf({ i \in DOMAIN board : board[i] = v })
    ELSE -1

\* Math.sqrt of a square number
Sqrt(n) == CHOOSE r \in 0..n : r * r = n

\* the array of valid moves, in the order the code pushes them
getValidMoves(board, emptyIndex, size) ==
    LET row == emptyIndex \div size
        col == emptyIndex % size
    IN  (IF row > 0 THEN << emptyIndex - size >> ELSE << >>)
        \o (IF row < size - 1 THEN << emptyIndex + size >> ELSE << >>)
        \o (IF col > 0 THEN << emptyIndex - 1 >> ELSE << >>)
        \o (IF col < size - 1 THEN << emptyIndex + 1 >> ELSE << >>)

\* validMoves.includes(tileIndex)
Includes(validMoves, tileIndex) ==
    \E k \in 1..Len(validMoves) : validMoves[k] = tileIndex

moveTile(board, tileIndex) ==
    LET emptyIndex == indexOf(board, 0)
        size == Sqrt(Length(board))
        validMoves == getValidMoves(board, emptyIndex, size)
    IN  IF ~Includes(validMoves, tileIndex)
        THEN Null
        ELSE Swap(board, emptyIndex, tileIndex)

isSolved(board) ==
    /\ \A i \in 0..(Length(board) - 2) : board[i] = i
    /\ board[Length(board) - 1] = 0

\* pairs of tiles other than 0 that stand in the wrong order
countInversions(board) ==
    Cardinality({ p \in (DOMAIN board) \X (DOMAIN board) :
                     /\ p[1] < p[2]
                     /\ board[p[1]] # 0
                     /\ board[p[2]] # 0
                     /\ board[p[1]] > board[p[2]] })

isSolvable(board, size) ==
    LET inversions == countInversions(board)
        emptyRow == indexOf(board, 0) \div size
    IN  IF size % 2 = 1
        THEN inversions % 2 = 0
        ELSE (inversions + (size - emptyRow)) % 2 = 1

\* generatePuzzle(size, moves) as it starts: the ordered array, emptyIndex
\* on its last cell
GeneratePuzzleStart(size, attempts) ==
    [ pc |-> "shuffle", size |-> size, board |-> ArrayFrom(size),
      emptyIndex |-> size * size - 1, i |-> 0, attempts |-> attempts ]

\* the fallback of generateSolvablePuzzle: the ordered array after its first
\* valid move
Fallback(size) ==
    LET board == ArrayFrom(size)
        emptyIndex == size * size - 1
        move == getValidMoves(board, emptyIndex, size)[1]
    IN  Swap(board, emptyIndex, move)

\* generateSolvablePuzzle(size) is called
GenerateSolvablePuzzle(size) ==
    /\ puzzle.pc = "idle"
    /\ puzzle' = GeneratePuzzleStart(size, 0)
    /\ UNCHANGED <<dbVars, mmVars, restVars, limiterVars>>

\* one turn of the loop of generatePuzzle; choice is the random index
GeneratePuzzleMove(choice) ==
    /\ puzzle.pc = "shuffle"
    /\ puzzle.i < puzzle.size * puzzle.size * 2
    /\ LET validMoves == getValidMoves(puzzle.board, puzzle.emptyIndex, puzzle.size)
       IN  /\ choice \in 1..Len(validMoves)
           /\ puzzle' = [puzzle EXCEPT
                 !.board = Swap(puzzle.board, puzzle.emptyIndex, validMoves[choice]),
                 !.emptyIndex = validMoves[choice],
                 !.i = @ + 1]
    /\ UNCHANGED <<dbVars, mmVars, restVars, limiterVars>>

\* generatePuzzle returns: attempts++, the fallback, the loop test
GeneratePuzzleReturn ==
    /\ puzzle.pc = "shuffle"
    /\ puzzle.i = puzzle.size * puzzle.size * 2
    /\ LET attempts == puzzle.attempts + 1
       IN  puzzle' =
             IF attempts >= maxAttempts
             THEN [puzzle EXCEPT !.pc = "returned", !.attempts = attempts,
                                 !.board = Fallback(puzzle.size)]
             ELSE IF ~isSolvable(puzzle.board, puzzle.size) \/ isSolved(puzzle.board)
             THEN GeneratePuzzleStart(puzzle.size, attempts)
             ELSE [puzzle EXCEPT !.pc = "returned", !.attempts = attempts]
    /\ UNCHANGED <<dbVars, mmVars, restVars, limiterVars>>

\* a move of the play: moveTile on the board returned, null leaves it
MoveTile(tileIndex) ==
    /\ puzzle.pc \in {"returned", "playing"}
    /\ moveTile(puzzle.board, tileIndex) # Null
    /\ puzzle' = [puzzle EXCEPT !.pc = "playing",
                                !.board = moveTile(puzzle.board, tileIndex)]
    /\ UNCHANGED <<dbVars, mmVars, restVars, limiterVars>>

NextPuzzle ==
    \/ GenerateSolvablePuzzle(PuzzleSize)
    \/ \E choice \in 1..4 : GeneratePuzzleMove(choice)
    \/ GeneratePuzzleReturn
    \/ \E tileIndex \in 0..(PuzzleSize * PuzzleSize - 1) : MoveTile(tileIndex)

SpecPuzzle == Init /\ [][NextPuzzle]_vars

(***************************************************************************)
(* createRateLimiter: the middleware it returns, its clean-up timer, and   *)
(* the clock both read                                                     *)
(***************************************************************************)
MaxTime == 4
MaxServed == 3

Identifiers == {1, 2}
LimiterArguments == {<<1, 1>>, <<2, 1>>, <<2, 2>>}

\* now - data.resetTime > windowMs
Elapsed(data, t, windowMs) == t - data.resetTime > windowMs

AtLimitAbove(data, maxRequests) == data.count > maxRequests

\* data.count >= maxRequests
AtLimit(data, maxRequests) == data.count >= maxRequests

\* createRateLimiter(maxRequests, windowMs)
CreateRateLimiter(maxRequests, windowMs) ==
    /\ limiter.maxRequests = 0
    /\ limiter' = [ maxRequests |-> maxRequests, windowMs |-> windowMs ]
    /\ served' = [ identifier \in Identifiers |-> << >> ]
    /\ UNCHANGED <<dbVars, mmVars, restVars, puzzleVars, requests, now>>

\* Date.now() moves on
Tick ==
    /\ limiter.maxRequests # 0
    /\ now < MaxTime
    /\ now' = now + 1
    /\ UNCHANGED <<dbVars, mmVars, restVars, puzzleVars, limiter, requests, served>>

\* the answer of the middleware: next() or status 429
Answer(identifier, status) ==
    served' = [served EXCEPT ![identifier] = Append(@, [ at |-> now, status |-> status ])]

\* rateLimiter(req, res, next) for a request of identifier
RateLimiter(identifier) ==
    /\ limiter.maxRequests # 0
    /\ Len(served[identifier]) < MaxServed
    /\ IF identifier \notin DOMAIN requests
       THEN /\ requests' = (identifier :> [ count |-> 1, resetTime |-> now ]) @@ requests
            /\ Answer(identifier, "next")
       ELSE LET data == requests[identifier]
            IN  IF Elapsed(data, now, limiter.windowMs)
                THEN /\ requests' = [requests EXCEPT
                            ![identifier] = [ count |-> 1, resetTime |-> now ]]
                     /\ Answer(identifier, "next")
                ELSE IF AtLimit(data, limiter.maxRequests)
                THEN /\ Answer(identifier, "429")
                     /\ UNCHANGED requests
                ELSE /\ requests' = [requests EXCEPT ![identifier].count = @ + 1]
                     /\ Answer(identifier, "next")
    /\ UNCHANGED <<dbVars, mmVars, restVars, puzzleVars, limiter, now>>

\* the setInterval callback: entries older than the window are deleted
CleanUp ==
    /\ limiter.maxRequests # 0
    /\ \E key \in DOMAIN requests : Elapsed(requests[key], now, limiter.windowMs)
    /\ requests' = [ key \in { k \in DOMAIN requests :
                                  ~Elapsed(requests[k], now, limiter.windowMs) } |->
                     requests[key] ]
    /\ UNCHANGED <<dbVars, mmVars, restVars, puzzleVars, limiter, now, served>>

NextLimiter ==
    \/ \E a \in LimiterArguments : CreateRateLimiter(a[1], a[2])
    \/ Tick
    \/ \E identifier \in Identifiers : RateLimiter(identifier)
    \/ CleanUp

SpecLimiter == Init /\ [][NextLimiter]_vars

(***************************************************************************)
(* Matchmaking: the socket handlers over accounts of several ratings       *)
(***************************************************************************)
MatchRatings == (1 :> 1000) @@ (2 :> 1200) @@ (3 :> 1350)

InitMatch == InitWith(MatchRatings)

NextMatch ==
    \/ \E u \in Users, r \in JoinRequests : JoinBegin(u, r[1], r[2])
    \/ \E j \in joins : JoinResume(j)
    \/ \E j \in joins : JoinCreated(j)
    \/ \E u \in Users, mode \in JoinModes : Leave(u, mode)
    \/ \E s \in DOMAIN activeGames : GameCompleted(s)
    \/ \E u \in Users : Disconnect(u)

SpecMatch == InitMatch /\ [][NextMatch]_vars

\* a later moment of a run: users 2 and 1 have been matched in mode
\* "multiplayer" and their session is running
InitActive ==
    /\ user_stats = [u \in Users |-> NewStats(MatchRatings[u])]
    /\ users = [u \in Users |-> NewUser]
    /\ game_sessions = << NewSession(2, 1, 4, "multiplayer") >>
    /\ leaderboards = << >>
    /\ game_moves = << >>
    /\ matchmakingQueue = [k \in QueueKeys |->
            IF k = "speed" THEN 1 ELSE IF k = "fewest_moves" THEN 2 ELSE 3]
    /\ arrays = << << >>, << >>, << >> >>
    /\ activeGames = (1 :> [ player1 |-> 2, player2 |-> 1, boardSize |-> 4,
                             mode |-> "multiplayer" ])
    /\ joins = {}
    /\ joinCount = 0
    /\ completes = {}
    /\ eloCalls = {}
    /\ lbCalls = {}
    /\ callCount = 0
    /\ tally = << NoTally >>
    /\ waiting = {}
    /\ handed = (1 :> 1)
    /\ opponent_disconnected = (1 :> [ v \in Users |-> 0 ])
    /\ clock = 1
    /\ NoUtilities

SpecActive == InitActive /\ [][NextMatch]_vars

\* SpecMatch reaches the initial state of SpecActive (joinCount apart)
AtInitActive ==
    /\ game_sessions = << NewSession(2, 1, 4, "multiplayer") >>
    /\ matchmakingQueue["multiplayer"] = 3
    /\ arrays = << << >>, << >>, << >> >>
    /\ DOMAIN activeGames = {1}
    /\ activeGames[1] = [ player1 |-> 2, player2 |-> 1, boardSize |-> 4,
                          mode |-> "multiplayer" ]
    /\ joins = {}
    /\ waiting = {}
    /\ handed = (1 :> 1)
    /\ opponent_disconnected = (1 :> [ v \in Users |-> 0 ])
    /\ clock = 1

(***************************************************************************)
(* Disconnects: the socket events the client emits (it never emits         *)
(* game_completed), every handler that can run does run                    *)
(***************************************************************************)
NextDisconnect ==
    \/ \E u \in Users, r \in JoinRequests : JoinBegin(u, r[1], r[2])
    \/ \E j \in joins : JoinResume(j)
    \/ \E j \in joins : JoinCreated(j)
    \/ \E u \in Users, mode \in JoinModes : Leave(u, mode)
    \/ \E u \in Users : Disconnect(u)

SpecDisconnect ==
    InitActive /\ [][NextDisconnect]_vars /\ WF_vars(NextDisconnect)

(***************************************************************************)
(* Completion: sessions made over the REST api and completed over it       *)
(***************************************************************************)
\* request bodies of POST /api/games/create: creator, boardSize, gameMode,
\* opponentId
CreateRequests ==
    { <<1, 4, "multiplayer", 2>>, <<1, 3, "speed", 2>>,
      <<2, 4, "speed", NoUser>>, <<2, 4, "practice", NoUser>> }

\* request bodies of POST /api/games/:sessionId/complete: winnerId,
\* completionTime, moveCount, perfectGame, speedBonus
CompleteRequests ==
    { <<1, 40, 10, TRUE, TRUE>>, <<2, 45, 12, FALSE, FALSE>>,
      <<NoUser, 45, 12, FALSE, FALSE>> }

Callers == {1, 2}

\* ids a client may name; one names no session until that session is created
SessionIds == 1..MaxSessions

EloSteps ==
    \/ \E e \in eloCalls : EloSelect1(e)
    \/ \E e \in eloCalls : EloSelect2(e)
    \/ \E e \in eloCalls : EloUpdate1(e)
    \/ \E e \in eloCalls : EloUpdate2(e)

LeaderboardSteps ==
    \/ \E l \in lbCalls : LbSelect(l)
    \/ \E l \in lbCalls : LbUpdate(l)
    \/ \E l \in lbCalls : LbInsert(l)
    \/ \E l \in lbCalls : LbRecalc(l)
    \/ \E l \in lbCalls : LbRecalcRefused(l)

NextComplete ==
    \/ \E r \in CreateRequests : CreateGame(r[1], r[2], r[3], r[4])
    \/ \E u \in Callers, s \in SessionIds, r \in CompleteRequests :
          CompleteBegin(u, s, r[1], r[2], r[3], r[4], r[5])
    \/ \E c \in completes : CompleteGet(c)
    \/ \E c \in completes : CompleteUpdate(c)
    \/ \E c \in completes : CompleteStats(c)
    \/ EloSteps
    \/ \E c \in completes : CompleteXp(c)
    \/ \E c \in completes : CompleteLeaderboard(c)
    \/ LeaderboardSteps

SpecComplete == Init /\ [][NextComplete]_vars

(***************************************************************************)
(* A matched session whose players disconnect and complete                 *)
(***************************************************************************)
NextAbandon ==
    \/ \E u \in Users : Disconnect(u)
    \/ \E u \in Callers, s \in SessionIds, r \in CompleteRequests :
          CompleteBegin(u, s, r[1], r[2], r[3], r[4], r[5])
    \/ \E c \in completes : CompleteGet(c)
    \/ \E c \in completes : CompleteUpdate(c)
    \/ \E c \in completes : CompleteStats(c)
    \/ EloSteps
    \/ \E c \in completes : CompleteXp(c)

SpecAbandon == InitActive /\ [][NextAbandon]_vars

(***************************************************************************)
(* Validation: requests that name a board size or a mode the application   *)
(* does not have                                                           *)
(***************************************************************************)
\* the keys matchmakingQueue is built with
SupportedModes == {"speed", "fewest_moves"}

\* the values the schema names for game_sessions.game_mode
GameModes == {"speed", "fewest_moves", "multiplayer", "practice"}

\* payloads of join_matchmaking: mode, boardSize
ValidateJoins == { <<"speed", 4>>, <<"speed", 5>>, <<"fewest_moves", 7>> }

\* request bodies of POST /api/games/create
ValidateCreates ==
    { <<1, 4, "speed", NoUser>>, <<1, 5, "speed", NoUser>>,
      <<2, 4, "blitz", NoUser>>, <<2, 7, "blitz", 1>> }

NextValidate ==
    \/ \E u \in Users, r \in ValidateJoins : JoinBegin(u, r[1], r[2])
    \/ \E j \in joins : JoinResume(j)
    \/ \E j \in joins : JoinCreated(j)
    \/ \E r \in ValidateCreates : CreateGame(r[1], r[2], r[3], r[4])

SpecValidate == Init /\ [][NextValidate]_vars

(***************************************************************************)
(* Moves: a matched session that receives moves while it is completed      *)
(***************************************************************************)
\* ids a move may name: the session and one that does not exist
MoveSessionIds == 1..(MaxSessions + 1)

NextMoves ==
    \/ NextAbandon
    \/ \E s \in MoveSessionIds, u \in Callers : RecordMove(s, u, Len(game_moves) + 1)

SpecMoves == InitActive /\ [][NextMoves]_vars

(***************************************************************************)
(* Status: sessions of the modes without a leaderboard, made by a match and *)
(* over the REST api, and completed                                        *)
(***************************************************************************)
\* request bodies of POST /api/games/create
StatusCreates == { <<1, 4, "practice", NoUser>> }

\* request bodies of POST /api/games/:sessionId/complete
StatusCompletes == { <<1, 40, 10, TRUE, TRUE>> }

\* a moment of a run: user 2 has queued for fewest_moves 4x4, user 1 has
\* joined, found and spliced that entry, and awaits createGameSession
PairedJoin ==
    [ id |-> 2, userId |-> 1, mode |-> "fewest_moves", boardSize |-> 4,
      queue |-> 2, pc |-> "create", userElo |-> DefaultElo,
      opponent |-> [ userId |-> 2, boardSize |-> 4, elo |-> DefaultElo,
                     joinedAt |-> 1 ] ]

AtInitPaired ==
    /\ game_sessions = << >>
    /\ arrays = << << >>, << >> >>
    /\ activeGames = << >>
    /\ joins = {PairedJoin}
    /\ joinCount = 2
    /\ waiting = {}
    /\ handed = << >>
    /\ opponent_disconnected = << >>
    /\ clock = 1

InitPaired ==
    /\ user_stats = [u \in Users |-> NewStats(DefaultElo)]
    /\ users = [u \in Users |-> NewUser]
    /\ leaderboards = << >>
    /\ game_moves = << >>
    /\ matchmakingQueue = [k \in QueueKeys |->
            IF k = "speed" THEN 1 ELSE IF k = "fewest_moves" THEN 2 ELSE 0]
    /\ completes = {}
    /\ eloCalls = {}
    /\ lbCalls = {}
    /\ callCount = 0
    /\ tally = << >>
    /\ AtInitPaired
    /\ NoUtilities

NextStatus ==
    \/ \E j \in joins : JoinCreated(j)
    \/ \E r \in StatusCreates : CreateGame(r[1], r[2], r[3], r[4])
    \/ \E r \in StatusCompletes :
          CompleteBegin(1, 1, r[1], r[2], r[3], r[4], r[5])
    \/ \E c \in completes : CompleteGet(c)
    \/ \E c \in completes : CompleteUpdate(c)
    \/ \E c \in completes : CompleteStats(c)
    \/ EloSteps
    \/ \E c \in completes : CompleteXp(c)

SpecStatus == InitPaired /\ [][NextStatus]_vars

\* the joins that lead to the initial state of SpecStatus
NextPairing ==
    \/ \E u \in Callers : JoinBegin(u, "fewest_moves", 4)
    \/ \E j \in joins : JoinResume(j)

SpecPairing == Init /\ [][NextPairing]_vars


(***************************************************************************)
(* Statistics: calls of db.updateUserStatsAfterGame for one account        *)
(***************************************************************************)
\* arguments of the call: isWin, completionTime, moveCount
StatsRequests == BOOLEAN \X {0, 40, 60} \X {0, 10, 12}

NextStats ==
    \E r \in StatsRequests : StatsApply(1, r[1], r[2], r[3], 4, "speed")

SpecStats == Init /\ [][NextStats]_vars

(***************************************************************************)
(* Rating writers: every kind of operation around a matched and a solo     *)
(* session                                                                 *)
(***************************************************************************)
NextRating ==
    \/ NextStatus
    \/ JoinBegin(2, "fewest_moves", 4)
    \/ \E j \in joins : JoinResume(j)
    \/ Leave(2, "fewest_moves")
    \/ Disconnect(1)
    \/ RecordMove(1, 1, Len(game_moves) + 1)
    \/ \E r \in StatusCompletes :
          CompleteBegin(1, 2, r[1], r[2], r[3], r[4], r[5])

SpecRating == InitPaired /\ [][NextRating]_vars

(***************************************************************************)
(* End of a session: a matched session completed over the REST api while   *)
(* its sockets send game_completed                                         *)
(***************************************************************************)
NextEnded ==
    \/ \E u \in Callers, s \in SessionIds, r \in CompleteRequests :
          CompleteBegin(u, s, r[1], r[2], r[3], r[4], r[5])
    \/ \E c \in completes : CompleteGet(c)
    \/ \E c \in completes : CompleteUpdate(c)
    \/ \E c \in completes : CompleteStats(c)
    \/ EloSteps
    \/ \E c \in completes : CompleteXp(c)
    \/ \E s \in DOMAIN activeGames : GameCompleted(s)

SpecEnded == InitActive /\ [][NextEnded]_vars

(***************************************************************************)
(* Games: the life of activeGames entries; the joins of one partition, the *)
(* game_completed event and the disconnects                                *)
(***************************************************************************)
NextGames ==
    \/ \E u \in Users : JoinBegin(u, "speed", 4)
    \/ \E j \in joins : JoinResume(j)
    \/ \E j \in joins : JoinCreated(j)
    \/ \E s \in DOMAIN activeGames : GameCompleted(s)
    \/ \E u \in Users : Disconnect(u)

SpecGames == InitMatch /\ [][NextGames]_vars

(***************************************************************************)
(* Ratings: calls of db.calculateAndUpdateELO for accounts at and inside   *)
(* the bounds of the rating                                                *)
(***************************************************************************)
RatingProfiles ==
    { [u \in Users |-> DefaultElo],
      (1 :> MinElo) @@ (2 :> MinElo) @@ (3 :> DefaultElo),
      (1 :> MaxElo) @@ (2 :> MaxElo) @@ (3 :> DefaultElo) }

InitElo == \E ratings \in RatingProfiles : InitWith(ratings)

\* arguments of a call: player1Id, player2Id; winnerId is one of them, or
\* NoUser for the draw the handler passes on as null
EloPairs == { <<1, 2>>, <<3, 1>> }

NextElo ==
    \/ \E p \in EloPairs, w \in {NoUser, 1, 2} : EloBegin(p[1], p[2], w)
    \/ EloSteps

SpecElo == InitElo /\ [][NextElo]_vars

(***************************************************************************)
(* Leaderboard: calls of db.updateLeaderboardEntry                         *)
(***************************************************************************)
\* arguments of a call: userId, category, score, eloRating; season is left
\* to its default
LbRequests ==
    { <<1, "speed_4x4", 40, 1016>>, <<1, "speed_4x4", 45, 1000>>,
      <<1, "speed_4x4", 50, 1000>>, <<2, "speed_4x4", 45, 984>>,
      <<2, "wins_overall", 3, 1000>>, <<2, "wins_overall", 2, 1000>> }

NextLeaderboard ==
    \/ \E r \in LbRequests : LbBegin(r[1], r[2], r[3], r[4], "all_time")
    \/ LeaderboardSteps

SpecLeaderboard == Init /\ [][NextLeaderboard]_vars

(***************************************************************************)
(* Claims on matchmaking                                                   *)
(***************************************************************************)
\* how often the entry stamped t is held: by queue arrays, by joins that
\* selected it, by sessions created from it
Holders(t) ==
    Cardinality({ <<r, i>> \in (DOMAIN arrays) \X (1..MaxJoins) :
                     i <= Len(arrays[r]) /\ arrays[r][i].joinedAt = t })
    + Cardinality({ j \in joins : j.pc = "create" /\ j.opponent.joinedAt = t })
    + Cardinality({ s \in DOMAIN handed : handed[s] = t })

\* C2: a waiting entry is selected as opponent by at most one join: it is
\* never held by two of the joins that selected an opponent and the
\* sessions created, and once selected it is in no queue array any more.
C2_EntrySelectedOnce == \A t \in 1..clock : Holders(t) <= 1

\* C2 witness: two joins of one partition ran together, both within range of
\* one waiting entry; one of them has selected it.
C2_Witness ==
    \E j \in joins, k \in joins :
        /\ j.pc = "create"
        /\ k.pc = "stats"
        /\ k.mode = j.mode
        /\ k.id < j.id
        /\ Compatible(j.opponent, k.boardSize, user_stats[k.userId].elo_rating)

\* C3: no user is a participant of two sessions that are active together.
C3_OneActiveSessionPerUser ==
    \A s \in DOMAIN activeGames, t \in DOMAIN activeGames :
        ( /\ s # t
          /\ game_sessions[s].status = "in_progress"
          /\ game_sessions[t].status = "in_progress" )
        => Participants(activeGames[s]) \cap Participants(activeGames[t]) = {}

\* C4: every pairing joins two players of one mode and one boardSize whose
\* ratings differ by at most 200, and the opponent is the earliest-enqueued
\* waiting entry of which that is true.
C4_PairingRule ==
    [][ \A j \in joins' :
            (j.pc = "create" /\ j \notin joins) =>
                /\ \E w \in waiting :
                       /\ w.joinedAt = j.opponent.joinedAt
                       /\ w.mode = j.mode
                /\ j.opponent.boardSize = j.boardSize
                /\ Abs(j.opponent.elo - j.userElo) <= MatchEloRange
                /\ \A w \in waiting :
                       ( /\ w.mode = j.mode
                         /\ Compatible(w, j.boardSize, j.userElo) )
                       => w.joinedAt >= j.opponent.joinedAt ]_vars

\* C5: a join that finds no waiting entry of its mode and boardSize within
\* 200 creates no session, is appended at the tail, leaves every queued
\* entry queued, and is told its position in the (mode, boardSize) list.
C5_EnqueueWhenNoMatch ==
    [][ clock' = clock + 1 =>
            \A e \in waiting' \ waiting :
                ( \A w \in waiting :
                      ~(w.mode = e.mode /\ Compatible(w, e.boardSize, e.elo)) )
                =>
                /\ game_sessions' = game_sessions
                /\ matchmakingQueue'[e.mode] # 0
                /\ LET q == arrays'[matchmakingQueue'[e.mode]]
                   IN  q[Len(q)].joinedAt = e.joinedAt
                /\ \A w \in waiting :
                       Queued(w, matchmakingQueue, arrays)
                       => Queued(w, matchmakingQueue', arrays')
                /\ e.position =
                       1 + Cardinality({ w \in waiting :
                               w.mode = e.mode /\ w.boardSize = e.boardSize }) ]_vars

(***************************************************************************)
(* Claims on completion                                                    *)
(***************************************************************************)
\* responses sent for session s
Answered(s) == tally[s].ok + tally[s].conflict + tally[s].error

\* C1: however the complete calls of one session interleave, exactly one of
\* them succeeds and every other one is answered with the conflict, and the
\* stats update, the ELO update and the leaderboard upsert of the session
\* are each made once.
C1_CompletedOnce ==
    \A s \in 1..Len(tally) :
        /\ tally[s].ok <= 1
        /\ tally[s].stats <= 1
        /\ tally[s].elo <= 1
        /\ tally[s].lb <= 1
        /\ (Answered(s) >= 1 /\ \A c \in completes : c.sessionId # s)
              => tally[s].ok = 1 /\ tally[s].conflict = Answered(s) - 1

(***************************************************************************)
(* Claims on ratings                                                       *)
(***************************************************************************)
\* C6: in every reachable state the elo_rating of every user lies in
\* 800..3000, whatever two-player sessions were completed with whatever
\* winner or draw.
C6_EloWithinBounds ==
    \A u \in Users :
        /\ user_stats[u].elo_rating >= 800
        /\ user_stats[u].elo_rating <= 3000

\* a run of sp_update_elo has held a loser at the floor or a winner at the
\* ceiling
C6_Witness ==
    \E e \in eloCalls :
        /\ e.pc = "update2"
        /\ \/ /\ e.player1_elo = 800
              /\ EloChange1(e) < 0
              /\ user_stats[e.player1_id].elo_rating = 800
           \/ /\ e.player1_elo = 3000
              /\ EloChange1(e) > 0
              /\ user_stats[e.player1_id].elo_rating = 3000

\* the delta the claim names for player p of the run e at equal ratings
EqualRatingDelta(e, p) ==
    IF e.winner_id \notin {e.player1_id, e.player2_id} THEN 0
    ELSE IF e.winner_id = p THEN 16
    ELSE -16

\* C7: a run of sp_update_elo that selected equal ratings for two players
\* adds 16 to the winner's row and takes 16 from the loser's, and changes
\* neither row for a draw (within the bounds of the rating); rows holding
\* 1000 become 1016 for the winner and 984 for the loser.
C7_EqualRatings ==
    [][ \A e \in eloCalls :
           LET p1 == e.player1_id
               p2 == e.player2_id
           IN  (p1 # p2 /\ e.player1_elo = e.player2_elo) =>
                 /\ EloUpdate1(e) =>
                      /\ user_stats'[p1].elo_rating =
                            Max2(800, Min2(3000, user_stats[p1].elo_rating
                                                   + EqualRatingDelta(e, p1)))
                      /\ (user_stats[p1].elo_rating = 1000 /\ e.winner_id = p1)
                            => user_stats'[p1].elo_rating = 1016
                      /\ (user_stats[p1].elo_rating = 1000 /\ e.winner_id = p2)
                            => user_stats'[p1].elo_rating = 984
                 /\ EloUpdate2(e) =>
                      /\ user_stats'[p2].elo_rating =
                            Max2(800, Min2(3000, user_stats[p2].elo_rating
                                                   + EqualRatingDelta(e, p2)))
                      /\ (user_stats[p2].elo_rating = 1000 /\ e.winner_id = p2)
                            => user_stats'[p2].elo_rating = 1016
                      /\ (user_stats[p2].elo_rating = 1000 /\ e.winner_id = p1)
                            => user_stats'[p2].elo_rating = 984
      ]_vars

\* two players both rated 1000 have had their ratings updated by one run: the
\* winner stands at 1016, the loser at 984
C7_Witness ==
    /\ eloCalls = {}
    /\ callCount = 1
    /\ user_stats[1].elo_rating = 1016
    /\ user_stats[2].elo_rating = 984
    /\ user_stats[3].elo_rating = 1000

(***************************************************************************)
(* Claims on the leaderboard                                               *)
(***************************************************************************)
\* the rank positions of a partition are 1..N, no rank shared
DenseRanks(category, season) ==
    LET P == Partition(leaderboards, category, season)
    IN  /\ { leaderboards[i].rank_position : i \in P } = 1..Cardinality(P)
        /\ \A a \in P, b \in P :
              a # b => leaderboards[a].rank_position # leaderboards[b].rank_position

\* rows ordered by rank are ordered by score under the rule of the category
RankedByScore(category, season) ==
    \A a, b \in Partition(leaderboards, category, season) :
        leaderboards[a].rank_position < leaderboards[b].rank_position =>
            IF Ascending(category)
            THEN leaderboards[a].score <= leaderboards[b].score
            ELSE leaderboards[a].score >= leaderboards[b].score

\* C8: once the calls of updateLeaderboardEntry made so far have all
\* finished, the rank positions of every partition are exactly 1..N, N the
\* number of its users, and rank order is score order under the category's
\* rule.
C8_RanksAfterCalls ==
    lbCalls = {} =>
        \A category \in Categories :
            DenseRanks(category, "all_time") /\ RankedByScore(category, "all_time")

\* C9: whatever calls of updateLeaderboardEntry are running on a partition,
\* every state a reader can query shows its rank positions as a dense 1..N
\* without duplicates.
C9_ReaderSeesDenseRanks ==
    \A category \in Categories : DenseRanks(category, "all_time")

\* C10: in a category named after speed or moves no step raises the stored
\* score of an entry, and a step that leaves its score as it was leaves its
\* rating snapshot as it was.
C10_ScoreNeverIncreases ==
    [][ \A i \in 1..Len(leaderboards) :
           Ascending(leaderboards[i].category) =>
              /\ leaderboards'[i].score <= leaderboards[i].score
              /\ leaderboards'[i].score = leaderboards[i].score
                    => leaderboards'[i].elo_rating = leaderboards[i].elo_rating
      ]_vars

\* C11: in a category named after neither speed nor moves an existing entry
\* is overwritten only by a strictly higher score: every step that changes
\* the score or the rating snapshot of such an entry raises its score.
C11_DescendingOverwrite ==
    [][ \A i \in 1..Len(leaderboards) :
           (/\ ~Ascending(leaderboards[i].category)
            /\ \/ leaderboards'[i].score # leaderboards[i].score
               \/ leaderboards'[i].elo_rating # leaderboards[i].elo_rating)
              => leaderboards'[i].score > leaderboards[i].score
      ]_vars

\* C12: once the leaderboard step of a completed speed session of board size
\* N has finished, the completing player has an entry in speed_NxN and one in
\* speed_overall, each at rank 1 where it is the only entry of its partition.
C12_SpeedLeaderboards ==
    \A s \in 1..Len(game_sessions) :
        (/\ game_sessions[s].game_mode = "speed"
         /\ tally[s].lb >= 1
         /\ \A l \in lbCalls : l.sessionId # s)
           => \E u \in Users :
                 \A category \in {SpeedCategory(game_sessions[s].board_size),
                                  "speed_overall"} :
                     LET P == Partition(leaderboards, category, "all_time")
                     IN  \E i \in P :
                            /\ leaderboards[i].user_id = u
                            /\ Cardinality(P) = 1
                                  => leaderboards[i].rank_position = 1

(***************************************************************************)
(* Claims on disconnect, leave and the session record                      *)
(***************************************************************************)
\* a participant of the matched session s has disconnected: under
\* SpecDisconnect only the disconnect handler takes s out of activeGames
Disconnected(s) == s \in DOMAIN handed /\ s \notin DOMAIN activeGames

\* C13: whenever a participant disconnects while the two-player session is
\* in_progress, the stored status of the session eventually becomes
\* abandoned.
C13_DisconnectAbandons ==
    \A s \in 1..(MaxJoins + 1) :
        (Disconnected(s) /\ game_sessions[s].status = "in_progress")
           ~> (s <= Len(game_sessions) /\ game_sessions[s].status = "abandoned")

\* C14: once a participant's disconnect has ended session s, no complete
\* call for s, started later or in flight at the time, changes the stats or
\* the rating of a user.
C14_NoEffectAfterAbandon ==
    [][ \A s \in DOMAIN handed :
           Disconnected(s) =>
              \/ user_stats' = user_stats
              \/ ~ \/ \E c \in completes : c.sessionId = s /\ CompleteStats(c)
                   \/ \E e \in eloCalls :
                         e.sessionId = s /\ (EloUpdate1(e) \/ EloUpdate2(e))
      ]_vars

\* C15: once the status of a session is completed, abandoned or draw, no
\* step changes any field of its record.
C15_TerminalIsFrozen ==
    [][ \A s \in 1..Len(game_sessions) :
           game_sessions[s].status \in {"completed", "abandoned", "draw"}
              => game_sessions'[s] = game_sessions[s]
      ]_vars

\* C16: the writes of one completion are all or nothing: where the calls
\* answered for a session have all failed, the session record is as it was
\* created, no stats or rating update of the session is in place and no
\* leaderboard row has been written, so that the call can be retried.
C16_FailureLeavesNothing ==
    \A s \in 1..Len(game_sessions) :
        (/\ tally[s].error >= 1
         /\ tally[s].ok = 0
         /\ \A c \in completes : c.sessionId # s)
           => /\ game_sessions[s].status = "in_progress"
              /\ game_sessions[s].completed_at = FALSE
              /\ tally[s].stats = 0
              /\ tally[s].elo = 0
              /\ tally[s].lb = 0

\* C17: the first complete of a two-player session sets its status to draw
\* where winnerId is null and to completed where it is not, and stamps
\* completed_at in both cases.
C17_DrawOrCompleted ==
    [][ \A c \in completes :
           (/\ CompleteUpdate(c)
            /\ game_sessions[c.sessionId].status = "in_progress"
            /\ game_sessions[c.sessionId].player2_id # NoUser)
              => /\ game_sessions'[c.sessionId].status =
                       IF c.winnerId = NoUser THEN "draw" ELSE "completed"
                 /\ game_sessions'[c.sessionId].completed_at = TRUE
      ]_vars

\* C18: when the disconnect of a user has been processed, no queue of any
\* mode holds an entry of that user, also where the user had joined a queue
\* more than once.
C18_DisconnectClearsQueues ==
    [][ \A u \in Users :
           Disconnect(u) =>
              \A k \in QueueKeys :
                  matchmakingQueue'[k] # 0
                     => FindUser(arrays'[matchmakingQueue'[k]], u) = 0
      ]_vars

\* The entries of the array behind a queue that belong to other users than u.
OthersIn(arr, ref, u) ==
    IF ref = 0 THEN << >> ELSE SelectSeq(arr[ref], LAMBDA e : e.userId # u)

\* C19: when leave_matchmaking(mode) of a user has been processed, the queue
\* of that mode holds no entry of the user, and the step touches neither a
\* session, nor activeGames, nor the entry of any other player.
C19_LeaveRemovesOwnEntry ==
    [][ \A u \in Users : \A mode \in DOMAIN matchmakingQueue :
           Leave(u, mode) =>
              /\ matchmakingQueue'[mode] # 0
                    => FindUser(arrays'[matchmakingQueue'[mode]], u) = 0
              /\ game_sessions' = game_sessions
              /\ activeGames' = activeGames
              /\ \A k \in DOMAIN matchmakingQueue :
                    OthersIn(arrays', matchmakingQueue'[k], u)
                       = OthersIn(arrays, matchmakingQueue[k], u)
      ]_vars

\* C20: a join_matchmaking of a user who is already waiting is refused, so
\* every queue holds at most one entry per userId.
C20_OneEntryPerUser ==
    \A k \in DOMAIN matchmakingQueue :
        matchmakingQueue[k] # 0 =>
            LET queue == arrays[matchmakingQueue[k]]
            IN  \A i, j \in 1..Len(queue) :
                    queue[i].userId = queue[j].userId => i = j

\* C21: a join_matchmaking or a session creation that names an unsupported
\* mode or board size is refused before it changes anything: no queue is
\* created or modified and no session record is inserted.
C21_RejectedBeforeChange ==
    [][ /\ \A j \in joins :
              ( /\ j.boardSize \notin ValidSizes \/ j.mode \notin SupportedModes
                /\ JoinResume(j) \/ JoinCreated(j) )
                 => UNCHANGED <<matchmakingQueue, arrays, game_sessions>>
        /\ \A r \in ValidateCreates :
              ( /\ r[2] \notin ValidSizes \/ r[3] \notin GameModes
                /\ CreateGame(r[1], r[2], r[3], r[4]) )
                 => game_sessions' = game_sessions
      ]_vars

\* C22: recordMove never changes the status of a session, and a move for a
\* session that is not in_progress (terminal or unknown) is refused: it is
\* not appended to the move log.
C22_MovesOnlyInProgress ==
    [][ /\ game_moves' # game_moves => game_sessions' = game_sessions
        /\ \A i \in 1..Len(game_moves') :
              i > Len(game_moves) =>
                 /\ game_moves'[i].session_id \in 1..Len(game_sessions)
                 /\ game_sessions[game_moves'[i].session_id].status = "in_progress"
      ]_vars

\* C23: the status of a session only moves forward: a session is created
\* in_progress, the only changes of status are from in_progress to
\* completed, abandoned or draw, and no step takes a session from a terminal
\* status to in_progress or to another terminal status.
C23_StatusMovesForward ==
    [][ \A s \in 1..Len(game_sessions') :
           IF s > Len(game_sessions)
           THEN game_sessions'[s].status = "in_progress"
           ELSE game_sessions'[s].status # game_sessions[s].status
                   => /\ game_sessions[s].status = "in_progress"
                      /\ game_sessions'[s].status \in {"completed", "abandoned", "draw"}
      ]_vars

\* a matched session and a solo session exist, one of them completed by two
\* overlapping requests
C23_Witness ==
    /\ \E s \in 1..Len(game_sessions) :
          game_sessions[s].status = "completed" /\ tally[s].stats >= 2
    /\ \E s \in 1..Len(game_sessions) : game_sessions[s].player2_id # NoUser
    /\ \E s \in 1..Len(game_sessions) : game_sessions[s].player2_id = NoUser

\* C24: no player is left stranded: a player who was told matchmaking_joined
\* and has not been matched, has not left and has not disconnected is in the
\* array that matchmakingQueue holds for the mode, the one later joins scan.
C24_NobodyStranded ==
    \A w \in waiting : Queued(w, matchmakingQueue, arrays)

(***************************************************************************)
(* Claims on the statistics of a user                                      *)
(***************************************************************************)
\* C25: after every stats apply, average_completion_time and average_moves
\* are the incremental mean (oldAvg * oldCount + newValue) / (oldCount + 1),
\* oldCount being total_games before the apply, rounded as the column is
\* (whole seconds; hundredths of a move).
C25_IncrementalMean ==
    [][ \A r \in StatsRequests :
           StatsApply(1, r[1], r[2], r[3], 4, "speed") =>
              LET old == user_stats[1]
                  new == user_stats'[1]
              IN  /\ new.average_completion_time =
                        RoundDiv(old.average_completion_time * old.total_games + r[2],
                                 old.total_games + 1)
                  /\ new.average_moves =
                        RoundDiv(old.average_moves * old.total_games + r[3] * 100,
                                 old.total_games + 1)
      ]_vars

\* C26: the best completion time and the best move count of a user only
\* improve: once a game has set one of them to a value, no later stats apply
\* (with any completionTime or moveCount, 0 included) stores a greater one.
C26_BestNeverRegresses ==
    [][ LET old == user_stats[1]
            new == user_stats'[1]
        IN  /\ old.best_completion_time # 0
                  => new.best_completion_time <= old.best_completion_time
            /\ old.total_games > 0
                  => new.best_move_count <= old.best_move_count
      ]_vars

\* C27: a stats apply with a win adds 1 to current_win_streak and sets
\* current_loss_streak to 0, one with a loss adds 1 to current_loss_streak
\* and sets current_win_streak to 0, and best_win_streak stays the greatest
\* value current_win_streak has taken.
C27_Streaks ==
    [][ \A r \in StatsRequests :
           StatsApply(1, r[1], r[2], r[3], 4, "speed") =>
              LET old == user_stats[1]
                  new == user_stats'[1]
              IN  /\ r[1] => /\ new.current_win_streak = old.current_win_streak + 1
                             /\ new.current_loss_streak = 0
                  /\ ~r[1] => /\ new.current_loss_streak = old.current_loss_streak + 1
                              /\ new.current_win_streak = 0
                  /\ new.best_win_streak =
                        Max2(old.best_win_streak, new.current_win_streak)
      ]_vars

\* C28: a stats apply adds exactly 1 to total_games and to exactly one of
\* total_wins and total_losses, and the win_rate it stores is
\* 100 * total_wins / total_games of the updated counters, to two decimals.
C28_CountersAndWinRate ==
    [][ \A r \in StatsRequests :
           StatsApply(1, r[1], r[2], r[3], 4, "speed") =>
              LET old == user_stats[1]
                  new == user_stats'[1]
              IN  /\ new.total_games = old.total_games + 1
                  /\ new.total_wins + new.total_losses
                        = old.total_wins + old.total_losses + 1
                  /\ new.total_wins \in {old.total_wins, old.total_wins + 1}
                  /\ new.total_losses \in {old.total_losses, old.total_losses + 1}
                  /\ new.win_rate = RoundDiv(new.total_wins * 10000, new.total_games)
      ]_vars

(***************************************************************************)
(* Claims on the writers of the rating                                     *)
(***************************************************************************)
\* C29: the elo_rating of a user changes only as a side effect of completing
\* a session with two players: completing a single-player session, applying
\* stats, recording a move, joining or leaving matchmaking and disconnecting
\* leave every elo_rating as it is, and the stats apply writes neither an
\* elo_rating nor a leaderboard row.
C29_RatingWriters ==
    [][ /\ (\E u \in Users : user_stats'[u].elo_rating # user_stats[u].elo_rating)
              => \E e \in eloCalls :
                    /\ EloUpdate1(e) \/ EloUpdate2(e)
                    /\ \E c \in completes :
                          /\ c.id = e.parent
                          /\ c.sessionId = e.sessionId
                          /\ game_sessions[c.sessionId].player2_id # NoUser
        /\ \A c \in completes :
              CompleteStats(c) =>
                 /\ \A u \in Users :
                       user_stats'[u].elo_rating = user_stats[u].elo_rating
                 /\ leaderboards' = leaderboards
      ]_vars

\* a two-player session was completed and moved a rating, a single-player
\* session was completed as well, a move is on record, a player waits in a
\* queue and a player of the session has disconnected
C29_Witness ==
    /\ \E u \in Users : user_stats[u].elo_rating # DefaultElo
    /\ \E s \in 1..Len(game_sessions) :
          game_sessions[s].player2_id = NoUser /\ tally[s].stats >= 1
    /\ Len(game_moves) >= 1
    /\ waiting # {}
    /\ \E s \in DOMAIN handed : s \notin DOMAIN activeGames

(***************************************************************************)
(* Claims on the errors of the complete handler                            *)
(***************************************************************************)
\* C30: a complete for a sessionId no session has is answered not found at
\* once and changes nothing: the handler ends there, and no session, stats,
\* rating, experience or leaderboard row is written for it.
C30_UnknownSession ==
    [][ /\ \A c \in completes :
              (CompleteGet(c) /\ c.sessionId \notin 1..Len(game_sessions))
                 => /\ UNCHANGED <<dbVars, tally, eloCalls, lbCalls>>
                    /\ \A d \in completes' : d.id # c.id
        /\ \A d \in completes' :
              d.pc # "get" => d.sessionId \in 1..Len(game_sessions')
      ]_vars

\* a complete was sent and answered while no session existed
C30_Witness ==
    /\ callCount >= 1
    /\ completes = {}
    /\ game_sessions = << >>

(***************************************************************************)
(* Claims on the notifications of the sockets                              *)
(***************************************************************************)
\* C31: game_ended is emitted to the participants of a session only when
\* the stored record of that session has a terminal status, never while it
\* is still in_progress.
C31_EndedAfterTerminal ==
    [][ \A s \in DOMAIN activeGames :
           GameCompleted(s) =>
              /\ s \in 1..Len(game_sessions)
              /\ game_sessions[s].status \in {"completed", "abandoned", "draw"}
      ]_vars

(***************************************************************************)
(* Claims on the entries of a queue                                        *)
(***************************************************************************)
\* C32: two entries waiting in the queue of one mode with the same boardSize
\* have ratings, as recorded when they were enqueued, more than 200 apart:
\* two players who could be matched are never both left waiting.
C32_NoCompatiblePairWaits ==
    \A k \in DOMAIN matchmakingQueue :
        matchmakingQueue[k] # 0 =>
            LET queue == arrays[matchmakingQueue[k]]
            IN  \A i, j \in 1..Len(queue) :
                    (i < j /\ queue[i].boardSize = queue[j].boardSize)
                       => Abs(queue[i].elo - queue[j].elo) > MatchEloRange

\* two entries of one boardSize wait in one queue
C32_Witness ==
    \E k \in DOMAIN matchmakingQueue :
        /\ matchmakingQueue[k] # 0
        /\ LET queue == arrays[matchmakingQueue[k]]
           IN  \E i, j \in 1..Len(queue) :
                   i < j /\ queue[i].boardSize = queue[j].boardSize

\* C33: a session created by matchmaking has two distinct participants: a
\* user who joins while already waiting is never paired with the user's own
\* entry.
C33_DistinctParticipants ==
    \A s \in DOMAIN handed :
        s \in 1..Len(game_sessions)
           => game_sessions[s].player1_id # game_sessions[s].player2_id

(***************************************************************************)
(* Claims on who completes a session                                       *)
(***************************************************************************)
\* the users who play session s
Players(s) == {game_sessions[s].player1_id, game_sessions[s].player2_id} \ {NoUser}

\* C34: a session is completed only by one of its participants and the
\* winner_id stored is player1_id, player2_id or null: a completion sent by
\* somebody else, or naming somebody else as the winner, writes no session,
\* stats or rating.
C34_OnlyParticipants ==
    [][ \A c \in completes :
           ( \/ CompleteUpdate(c)
             \/ CompleteStats(c) )
              => /\ c.userId \in Players(c.sessionId)
                 /\ c.winnerId \in Players(c.sessionId) \cup {NoUser}
      ]_vars

\* C35: once a two-player session is completed and every complete call for
\* it has been answered, the stats of each of its two participants have
\* been updated exactly once for it, the winner with a win and the other
\* with a loss, whoever called complete and however often.  (Session 1 is
\* the only session of the accounts of SpecEnded, so total_games counts the
\* updates made for it.)
C35_BothUpdatedOnce ==
    ( /\ game_sessions[1].status = "completed"
      /\ game_sessions[1].player2_id # NoUser
      /\ \A c \in completes : c.sessionId # 1
      /\ \A e \in eloCalls : e.sessionId # 1 )
       => \A u \in Players(1) :
             /\ user_stats[u].total_games = 1
             /\ game_sessions[1].winner_id \in Players(1)
                   => IF game_sessions[1].winner_id = u
                      THEN user_stats[u].total_wins = 1
                      ELSE user_stats[u].total_losses = 1

\* the users of game g named by its fields
PlayersOf(g) == {g.player1, g.player2}

\* C36: when the disconnect of a participant has been processed, activeGames
\* holds no game with that user as player1 or player2, and for every game the
\* step removed the other participant has been sent opponent_disconnected
\* exactly once; no participant is ever sent it twice for one game; a game
\* enters activeGames only when a match creates it and leaves only by
\* game_completed for its session or by the disconnect of a participant.
C36_DisconnectEndsGames ==
    [][ /\ \A u \in Users :
              Disconnect(u) =>
                 /\ \A s \in DOMAIN activeGames' : u \notin PlayersOf(activeGames'[s])
                 /\ \A s \in DOMAIN activeGames :
                       u \in PlayersOf(activeGames[s]) =>
                          \A v \in PlayersOf(activeGames[s]) \ {u} :
                              /\ opponent_disconnected[s][v] = 0
                              /\ opponent_disconnected'[s][v] = 1
        /\ \A s \in DOMAIN opponent_disconnected' : \A v \in Users :
              opponent_disconnected'[s][v] <= 1
        /\ \A s \in (DOMAIN activeGames') \ DOMAIN activeGames :
              \E j \in joins : JoinCreated(j) /\ s = Len(game_sessions')
        /\ \A s \in (DOMAIN activeGames) \ DOMAIN activeGames' :
              \/ GameCompleted(s)
              \/ \E u \in PlayersOf(activeGames[s]) : Disconnect(u)
      ]_vars

\* C36 witness: a matched game of two users was removed by the disconnect of
\* one of them and the other was sent opponent_disconnected.
C36_Witness ==
    \E s \in DOMAIN handed :
        /\ s \notin DOMAIN activeGames
        /\ game_sessions[s].player1_id # game_sessions[s].player2_id
        /\ \E v \in Users : opponent_disconnected[s][v] = 1

\* the boards a sequence of legal moveTile moves leads to from those of S
RECURSIVE BoardsFrom(_)
BoardsFrom(S) ==
    LET T == S \cup ({ moveTile(b, t) : b \in S, t \in 0..(PuzzleSize * PuzzleSize - 1) }
                       \ {Null})
    IN  IF T = S THEN S ELSE BoardsFrom(T)

\* C37: every board generateSolvablePuzzle returns can be solved: a finite
\* sequence of legal moveTile moves leads from it to a board for which
\* isSolved is true.
C37_ReturnedIsSolvable ==
    puzzle.pc = "returned" => \E b \in BoardsFrom({puzzle.board}) : isSolved(b)

\* the requests of identifier passed to next() at or after time t
PassedSince(log, identifier, t) ==
    Cardinality({ k \in 1..Len(log[identifier]) :
                     log[identifier][k].status = "next" /\ log[identifier][k].at >= t })

\* the answer the step gave to identifier
LastAnswer(identifier) == served'[identifier][Len(served'[identifier])].status

\* C38: for a limiter created with maxRequests M >= 1 and window W, at most M
\* requests of an identifier are passed to next() in the window that starts
\* at its resetTime; once M have been passed, every request made before more
\* than W has elapsed is answered 429 and leaves the entry as it is; the
\* first request after more than W has elapsed is passed and sets the count
\* to 1 and resetTime to its own time.
C38_WindowLimit ==
    [][ \A identifier \in Identifiers :
           /\ identifier \in DOMAIN requests' =>
                 PassedSince(served', identifier, requests'[identifier].resetTime)
                    <= limiter'.maxRequests
           /\ (RateLimiter(identifier) /\ identifier \in DOMAIN requests) =>
                 LET data == requests[identifier]
                 IN  IF now - data.resetTime > limiter.windowMs
                     THEN /\ LastAnswer(identifier) = "next"
                          /\ requests'[identifier] = [ count |-> 1, resetTime |-> now ]
                     ELSE PassedSince(served, identifier, data.resetTime)
                             >= limiter.maxRequests
                            => /\ LastAnswer(identifier) = "429"
                               /\ requests' = requests
      ]_vars

\* C38 witness: an identifier was answered 429 within its window and, after
\* the window had elapsed, passed again with its count back at 1.
C38_Witness ==
    \E identifier \in DOMAIN requests :
        LET log == served[identifier]
        IN  /\ Len(log) >= 3
            /\ log[Len(log) - 1].status = "429"
            /\ log[Len(log)].status = "next"
            /\ requests[identifier] = [ count |-> 1, resetTime |-> log[Len(log)].at ]
====
